---- MODULE Spec2Model ----
(***************************************************************************)
(* Model of src/server.js: the POST /submit handler of the business        *)
(* registration server.  One behaviour is one request: the parsed form     *)
(* body, the uploaded files and the S3_BUCKET setting are drawn in Init,   *)
(* and every await of the handler (image codec, object store, presigner,   *)
(* mail transport) is a step whose outcome the environment chooses.        *)
(*                                                                         *)
(* Text is a sequence of one-character strings, so that escapeHtml and the *)
(* newline replacement are computed character by character as the code     *)
(* does.  The form field names are Korean in the source; the model uses    *)
(* the English names of the specification:                                 *)
(*   business_name = 업체명, address = 주소지, phone = 전화번호,           *)
(*   discount_rate = SUT_할인율, map_link = 네이버지도링크,                *)
(*   description = 업체소개, promo_tag = 홍보태그.                         *)
(***************************************************************************)
EXTENDS Integers, Sequences, FiniteSets, TLC

VARIABLES body, files, bucket, pc, idx, buf, uploaded, outcome, optCalls,
          storeCalls, presignCalls, objects, mailCalls, mailOptions,
          mailResult, responses

vars == <<body, files, bucket, pc, idx, buf, uploaded, outcome, optCalls,
          storeCalls, presignCalls, objects, mailCalls, mailOptions,
          mailResult, responses>>

(***************************************************************************)
(* Bounds and program constants                                            *)
(***************************************************************************)
\* multer limit: upload.array('photos', 5), limits.files = 5
MaxFiles == 5

\* the re-compression guard: 2 * 1024 * 1024 bytes
RecompressLimit == 2 * 1024 * 1024

FirstQuality == 60
SecondQuality == 45
MaxDim == 800

\* buffer lengths the codec and the uploads may have: at the guard and one
\* byte above it
Sizes == {RecompressLimit, RecompressLimit + 1}

(***************************************************************************)
(* Text helpers                                                            *)
(***************************************************************************)
RECURSIVE ReplaceChar(_, _, _)
\* String.prototype.replace(/c/g, r) for a one-character pattern c
ReplaceChar(s, c, r) ==
  IF s = <<>> THEN <<>>
  ELSE (IF Head(s) = c THEN r ELSE <<Head(s)>>) \o ReplaceChar(Tail(s), c, r)

RECURSIVE ReplacePair(_, _, _, _)
\* String.prototype.replace(/ab/g, r) for a two-character pattern a b
ReplacePair(s, a, b, r) ==
  IF s = <<>> THEN <<>>
  ELSE IF Len(s) >= 2 /\ s[1] = a /\ s[2] = b
       THEN r \o ReplacePair(Tail(Tail(s)), a, b, r)
       ELSE <<Head(s)>> \o ReplacePair(Tail(s), a, b, r)

\* a form value: absent from req.body (undefined) or a string
Undefined == [present |-> FALSE, val |-> <<>>]
Str(s) == [present |-> TRUE, val |-> s]

\* JavaScript falsiness of a form value: undefined or ''
Falsy(v) == ~v.present \/ v.val = <<>>

escapeHtml(v) ==
  IF Falsy(v) THEN <<>>
  ELSE LET s1 == ReplaceChar(v.val, "&", <<"&", "a", "m", "p", ";">>)
           s2 == ReplaceChar(s1, "<", <<"&", "l", "t", ";">>)
           s3 == ReplaceChar(s2, ">", <<"&", "g", "t", ";">>)
           s4 == ReplaceChar(s3, "\"", <<"&", "q", "u", "o", "t", ";">>)
           s5 == ReplaceChar(s4, "'", <<"&", "#", "3", "9", ";">>)
       IN s5

escapeAttribute(v) ==
  ReplaceChar(escapeHtml(v), "\"", <<"&", "q", "u", "o", "t", ";">>)

BrTag == <<"<", "b", "r", "/", ">">>

\* escapeHtml(description).replace(/\\n/g, '<br/>'): the regular expression
\* literal /\\n/ matches a backslash followed by the letter n
renderDescription(v) == ReplacePair(escapeHtml(v), "\\", "n", BrTag)

\* the template literal `${x}` of a form value: String(x)
Interpolate(v) ==
  IF v.present THEN v.val
  ELSE <<"u", "n", "d", "e", "f", "i", "n", "e", "d">>

SubjectPrefix == <<"[", "submission", "]", " ">>

(***************************************************************************)
(* The request: form body, files, configuration                            *)
(***************************************************************************)
Required == {"business_name", "address", "phone", "discount_rate",
             "map_link", "description"}
AllFields == Required \cup {"promo_tag"}

Plain == Str(<<"x">>)

\* fully populated submissions: plain text, markup in the name and a line
\* feed in the description, and an ampersand with the two characters \ n
ValidBodies ==
  { [f \in AllFields |-> IF f = "promo_tag" THEN Undefined ELSE Plain],
    [f \in AllFields |->
       CASE f = "business_name" -> Str(<<"\"", "<", "b", ">">>)
         [] f = "description"   -> Str(<<"a", "\n", "b">>)
         [] f = "map_link"      -> Str(<<"h", "\"", "'">>)
         [] f = "promo_tag"     -> Str(<<"&">>)
         [] OTHER               -> Plain],
    [f \in AllFields |->
       CASE f = "business_name" -> Str(<<"A", "&", "'">>)
         [] f = "description"   -> Str(<<"a", "\\", "n", "b">>)
         [] f = "promo_tag"     -> Str(<<>>)
         [] OTHER               -> Plain] }

\* submissions in which at least one required field is absent or empty
InvalidBodies ==
  { b \in [AllFields -> {Undefined, Str(<<>>), Plain}] :
      /\ b["promo_tag"] = Undefined
      /\ \E f \in Required : Falsy(b[f]) }

\* f.buffer of the i-th uploaded file
OrigBuffer(i, s) == [kind |-> "orig", file |-> i, size |-> s]

FileSeqs ==
  UNION { [1..n -> Sizes] : n \in 0..MaxFiles }

\* outcomes of one codec run inside optimizeBuffer: sharp throws, or it
\* produces a JPEG of some length
CodecOutcomes ==
  {[threw |-> TRUE, size |-> 0]} \cup {[threw |-> FALSE, size |-> s] : s \in Sizes}

MissingMsg == "missing_required_fields"
MailFailMsg == "mail_send_failed"
SuccessMsg == "submitted_mail_sent"
ServerErrMsg == "server_error"

NoMail == [subject |-> <<>>, html |-> [noImages |-> FALSE, images |-> <<>>]]

Init ==
  /\ body \in ValidBodies \cup InvalidBodies
  /\ \E sizes \in FileSeqs :
       files = [i \in DOMAIN sizes |-> [buffer |-> OrigBuffer(i, sizes[i])]]
  /\ bucket \in BOOLEAN
  /\ pc = "Received"
  /\ idx = 1
  /\ buf = [kind |-> "none", file |-> 0, size |-> 0]
  /\ uploaded = <<>>
  /\ outcome = [i \in DOMAIN files |-> "pending"]
  /\ optCalls = <<>>
  /\ storeCalls = 0
  /\ presignCalls = 0
  /\ objects = {}
  /\ mailCalls = 0
  /\ mailOptions = NoMail
  /\ mailResult = "none"
  /\ responses = <<>>

(***************************************************************************)
(* Pure parts of the handler                                               *)
(***************************************************************************)
\* the required-field check with the description operand left out
MissingRequiredNoDescription(b) ==
  \/ Falsy(b["business_name"])
  \/ Falsy(b["address"])
  \/ Falsy(b["phone"])
  \/ Falsy(b["discount_rate"])
  \/ Falsy(b["map_link"])

\* the required-field check of line 133
MissingRequired(b) ==
  \/ Falsy(b["business_name"])
  \/ Falsy(b["address"])
  \/ Falsy(b["phone"])
  \/ Falsy(b["discount_rate"])
  \/ Falsy(b["map_link"])
  \/ Falsy(b["description"])

\* optimizeBuffer without its catch block: a codec failure reaches the caller
optimizeBufferStrict(buffer, maxDim, quality, codec) ==
  IF codec.threw
    THEN [threw |-> TRUE, buf |-> buffer]
    ELSE [threw |-> FALSE,
          buf |-> [kind |-> "jpeg", file |-> buffer.file, size |-> codec.size]]

\* optimizeBuffer(buffer, maxDim, quality): the try block returns the
\* re-encoded image, the catch block returns the buffer it was given
optimizeBuffer(buffer, maxDim, quality, codec) ==
  IF codec.threw
    THEN [threw |-> FALSE, buf |-> buffer]
    ELSE [threw |-> FALSE,
          buf |-> [kind |-> "jpeg", file |-> buffer.file, size |-> codec.size]]

\* the guard written with >= in place of >
NeedsRecompressAtLimit(b) ==
  b.size >= RecompressLimit

\* buf.length > 2 * 1024 * 1024
NeedsRecompress(b) ==
  b.size > RecompressLimit

\* the buffer handed to the second optimizeBuffer call: f.buffer
SecondPassInput(f, b) == f.buffer

\* `uploads/${randomName(f.originalname)}`: unique per call, here the
\* position of the file
Key(i) == i

\* Math.round(size / 1024)
RoundKB(size) == (size + 512) \div 1024

\* one <li> of the image list
RenderEntry(u) == [key |-> u.key, linked |-> u.url, kb |-> RoundKB(u.size)]

\* the message body with the list shown only for two or more images
ComposeHtmlListFromTwo(b, ups) ==
  LET tag == IF Falsy(b["promo_tag"]) THEN Str(<<>>) ELSE b["promo_tag"]
      shown == IF Len(ups) > 1 THEN ups ELSE <<>>
  IN [business_name |-> escapeHtml(b["business_name"]),
      address       |-> escapeHtml(b["address"]),
      phone         |-> escapeHtml(b["phone"]),
      discount_rate |-> escapeHtml(b["discount_rate"]),
      href          |-> escapeAttribute(b["map_link"]),
      map_link      |-> escapeHtml(b["map_link"]),
      promo_tag     |-> escapeHtml(tag),
      description   |-> renderDescription(b["description"]),
      images        |-> [k \in DOMAIN shown |-> RenderEntry(shown[k])],
      noImages      |-> (Len(shown) = 0)]

\* the message body: the interpolated parts of the template
ComposeHtml(b, ups) ==
  LET tag == IF Falsy(b["promo_tag"]) THEN Str(<<>>) ELSE b["promo_tag"]
  IN [business_name |-> escapeHtml(b["business_name"]),
      address       |-> escapeHtml(b["address"]),
      phone         |-> escapeHtml(b["phone"]),
      discount_rate |-> escapeHtml(b["discount_rate"]),
      href          |-> escapeAttribute(b["map_link"]),
      map_link      |-> escapeHtml(b["map_link"]),
      promo_tag     |-> escapeHtml(tag),
      description   |-> renderDescription(b["description"]),
      images        |-> [k \in DOMAIN ups |-> RenderEntry(ups[k])],
      noImages      |-> (Len(ups) = 0)]

\* subject: `[...] ${business_name}`
ComposeSubject(b) == SubjectPrefix \o Interpolate(b["business_name"])

MissingResponse == [status |-> 400, ok |-> FALSE, message |-> MissingMsg]
MailFailureResponse == [status |-> 500, ok |-> FALSE, message |-> MailFailMsg]
SuccessResponse == [status |-> 200, ok |-> TRUE, message |-> SuccessMsg]
FaultResponse == [status |-> 500, ok |-> FALSE, message |-> ServerErrMsg]

(***************************************************************************)
(* Continuations of the handler between two awaits                         *)
(***************************************************************************)
\* the for-of loop head after file i is done: the next file, or the code
\* after the loop
LoopHead(i) == IF i <= Len(files) THEN "Normalize" ELSE "Notify"

\* the 400 response without its return: the handler goes on into the loop
RespondMissingNoReturn ==
  /\ responses' = Append(responses, MissingResponse)
  /\ pc' = LoopHead(1)
  /\ UNCHANGED <<idx, uploaded, outcome>>

\* return res.status(400).json(...) of the required-field check
RespondMissing ==
  /\ responses' = Append(responses, MissingResponse)
  /\ pc' = "Completed"
  /\ UNCHANGED <<idx, uploaded, outcome>>

\* the required fields are there: files, bucket, uploaded = [] and the loop
EnterLoop ==
  /\ pc' = LoopHead(1)
  /\ UNCHANGED <<idx, uploaded, outcome, responses>>

\* stay inside the try block of file idx, at the next await
Continue(next) ==
  /\ pc' = next
  /\ UNCHANGED <<idx, uploaded, outcome, responses>>

\* uploaded.push(...) and the end of the iteration
Push(entry, how) ==
  /\ uploaded' = Append(uploaded, entry)
  /\ outcome' = [outcome EXCEPT ![idx] = how]
  /\ idx' = idx + 1
  /\ pc' = LoopHead(idx + 1)
  /\ UNCHANGED responses

\* a file loop without its try/catch: the error reaches the handler's
\* outer catch, which answers 500
PerFileCatchEscapes(why) ==
  /\ outcome' = [outcome EXCEPT ![idx] = why]
  /\ responses' = Append(responses, FaultResponse)
  /\ pc' = "Completed"
  /\ UNCHANGED <<idx, uploaded>>

\* a catch that keeps a stored file whose presign failed as an entry
\* without a link
PerFileCatchKeepsStored(why) ==
  /\ uploaded' = IF why = "presign_failed"
                   THEN Append(uploaded,
                          [key |-> Key(idx), url |-> FALSE, size |-> buf.size])
                   ELSE uploaded
  /\ outcome' = [outcome EXCEPT ![idx] = why]
  /\ idx' = idx + 1
  /\ pc' = LoopHead(idx + 1)
  /\ UNCHANGED responses

\* catch (errFile): warn and go on with the next file
PerFileCatch(why) ==
  /\ outcome' = [outcome EXCEPT ![idx] = why]
  /\ idx' = idx + 1
  /\ pc' = LoopHead(idx + 1)
  /\ UNCHANGED <<uploaded, responses>>

\* lines 156-164 once buf is final: the key, then the upload or the entry
\* without a link
AfterOptimize(b) ==
  IF bucket
    THEN Continue("Store")
    ELSE Push([key |-> Key(idx), url |-> FALSE, size |-> b.size], "no_s3")

\* a rejected sendMail answered as a success
MailFailedAsSuccess ==
  /\ mailResult' = "failed"
  /\ responses' = Append(responses, SuccessResponse)
  /\ pc' = "Completed"

\* the code after a rejected sendMail
MailFailed ==
  /\ mailResult' = "failed"
  /\ responses' = Append(responses, MailFailureResponse)
  /\ pc' = "Completed"

\* the code after a resolved sendMail
MailSent ==
  /\ mailResult' = "sent"
  /\ responses' = Append(responses, SuccessResponse)
  /\ pc' = "Completed"

(***************************************************************************)
(* Actions: one per await of app.post('/submit')                           *)
(***************************************************************************)
Validate ==
  /\ pc = "Received"
  /\ IF MissingRequired(body) THEN RespondMissing ELSE EnterLoop
  /\ UNCHANGED <<body, files, bucket, buf, optCalls, storeCalls,
                 presignCalls, objects, mailCalls, mailOptions, mailResult>>

\* let buf = await optimizeBuffer(f.buffer, 800, 60)
Optimize60 ==
  /\ pc = "Normalize"
  /\ \E codec \in CodecOutcomes :
       LET input == files[idx].buffer
           r == optimizeBuffer(input, MaxDim, FirstQuality, codec)
       IN /\ optCalls' = <<[file |-> idx, quality |-> FirstQuality,
                            input |-> input, codecThrew |-> codec.threw,
                            result |-> r.buf]>>
          /\ IF r.threw
               THEN buf' = buf /\ PerFileCatch("normalize_failed")
               ELSE /\ buf' = r.buf
                    /\ IF NeedsRecompress(r.buf)
                         THEN Continue("Recompress")
                         ELSE AfterOptimize(r.buf)
  /\ UNCHANGED <<body, files, bucket, storeCalls, presignCalls, objects,
                 mailCalls, mailOptions, mailResult>>

\* buf = await optimizeBuffer(f.buffer, 800, 45)
Optimize45 ==
  /\ pc = "Recompress"
  /\ \E codec \in CodecOutcomes :
       LET input == SecondPassInput(files[idx], buf)
           r == optimizeBuffer(input, MaxDim, SecondQuality, codec)
       IN /\ optCalls' = Append(optCalls,
                           [file |-> idx, quality |-> SecondQuality,
                            input |-> input, codecThrew |-> codec.threw,
                            result |-> r.buf])
          /\ IF r.threw
               THEN buf' = buf /\ PerFileCatch("normalize_failed")
               ELSE buf' = r.buf /\ AfterOptimize(r.buf)
  /\ UNCHANGED <<body, files, bucket, storeCalls, presignCalls, objects,
                 mailCalls, mailOptions, mailResult>>

\* await uploadToS3(buf, bucket, key)
Store ==
  /\ pc = "Store"
  /\ storeCalls' = storeCalls + 1
  /\ \E ok \in BOOLEAN :
       IF ok
         THEN objects' = objects \cup {Key(idx)} /\ Continue("Presign")
         ELSE objects' = objects /\ PerFileCatch("store_failed")
  /\ UNCHANGED <<body, files, bucket, buf, optCalls, presignCalls,
                 mailCalls, mailOptions, mailResult>>

\* const url = await createPresignedUrl(bucket, key, 60*60*24)
Presign ==
  /\ pc = "Presign"
  /\ presignCalls' = presignCalls + 1
  /\ \E ok \in BOOLEAN :
       IF ok
         THEN Push([key |-> Key(idx), url |-> TRUE, size |-> buf.size], "stored")
         ELSE PerFileCatch("presign_failed")
  /\ UNCHANGED <<body, files, bucket, buf, optCalls, storeCalls, objects,
                 mailCalls, mailOptions, mailResult>>

\* the body and mailOptions, then await transporter.sendMail(mailOptions)
SendMail ==
  /\ pc = "Notify"
  /\ mailOptions' = [subject |-> ComposeSubject(body),
                     html |-> ComposeHtml(body, uploaded)]
  /\ mailCalls' = mailCalls + 1
  /\ \E ok \in BOOLEAN : IF ok THEN MailSent ELSE MailFailed
  /\ UNCHANGED <<body, files, bucket, idx, buf, uploaded, outcome, optCalls,
                 storeCalls, presignCalls, objects>>

Next ==
  \/ Validate
  \/ Optimize60
  \/ Optimize45
  \/ Store
  \/ Presign
  \/ SendMail

Spec == Init /\ [][Next]_vars

TypeOK ==
  /\ pc \in {"Received", "Normalize", "Recompress", "Store", "Presign",
             "Notify", "Completed"}
  /\ idx \in 1..(Len(files) + 1)
  /\ Len(files) <= MaxFiles
  /\ Len(uploaded) <= Len(files)
  /\ Len(responses) <= 1

(***************************************************************************)
(* Vocabulary of the properties                                            *)
(***************************************************************************)
SomeMissing == \E f \in Required : ~body[f].present \/ body[f].val = <<>>
AllPresent == ~SomeMissing

Processed(i) == outcome[i] # "pending"
Skipped(i) == outcome[i] \in {"normalize_failed", "store_failed", "presign_failed"}
Listed(i) == outcome[i] \in {"stored", "no_s3"}

Answered(st, okFlag, msg) ==
  responses = <<[status |-> st, ok |-> okFlag, message |-> msg]>>

\* the calls of the normalizer made for the current file all ended in a
\* codec failure
CodecAlwaysThrew ==
  /\ optCalls # <<>>
  /\ \A k \in DOMAIN optCalls : optCalls[k].codecThrew

TwoMiB == 2 * 1024 * 1024

(***************************************************************************)
(* C1: a submission in which a required field is absent or empty is        *)
(* answered 400 with ok:false, and no normalizer, store, presign or mail   *)
(* call is made at any point of the request, whatever files are attached.  *)
(***************************************************************************)
C1_MissingFieldRejected ==
  SomeMissing =>
    /\ pc \in {"Received", "Completed"}
    /\ pc = "Completed" => Answered(400, FALSE, MissingMsg)
    /\ optCalls = <<>>
    /\ storeCalls = 0
    /\ presignCalls = 0
    /\ mailCalls = 0
    /\ objects = {}
    /\ uploaded = <<>>
    /\ \A i \in DOMAIN files : ~Processed(i)

C1_Witness ==
  /\ SomeMissing
  /\ body["description"].present /\ body["description"].val = <<>>
  /\ ~body["phone"].present
  /\ Len(files) = 2
  /\ pc = "Completed"
  /\ Answered(400, FALSE, MissingMsg)

C3_FileLoopFaultIsolation ==
  AllPresent =>
    /\ \A i \in DOMAIN files : i < idx => Processed(i)
    /\ pc \in {"Notify", "Completed"} => \A i \in DOMAIN files : Processed(i)
    /\ pc = "Completed" =>
         /\ mailCalls = 1
         /\ mailResult = "sent" => Answered(200, TRUE, SuccessMsg)
         /\ mailResult # "sent" => Answered(500, FALSE, MailFailMsg)

C3_Witness ==
  /\ AllPresent
  /\ pc = "Completed"
  /\ Len(files) = 3
  /\ outcome[1] = "store_failed"
  /\ outcome[2] = "presign_failed"
  /\ outcome[3] = "stored"
  /\ Answered(200, TRUE, SuccessMsg)

(***************************************************************************)
(* C4 (as amended): with all required fields present, all n attachments    *)
(* (0 <= n <= 5) normalized, stored and presigned, and a sendMail that     *)
(* does not throw, the response is 200, sendMail was called exactly once   *)
(* and the body lists exactly n image entries, each with its link; for     *)
(* n = 0 the body states instead that no images are attached.              *)
(***************************************************************************)
AllStored == \A i \in DOMAIN files : outcome[i] = "stored"

C5_CodecFailureKeepsOriginal ==
  (AllPresent /\ Len(files) = 1 /\ pc = "Completed" /\ CodecAlwaysThrew) =>
    /\ Processed(1)
    /\ outcome[1] # "normalize_failed"
    /\ ~bucket => outcome[1] = "no_s3"
    /\ mailCalls = 1
    /\ mailResult = "sent" => Answered(200, TRUE, SuccessMsg)
    /\ Listed(1) =>
         /\ Len(mailOptions.html.images) = 1
         /\ mailOptions.html.images[1].kb = RoundKB(files[1].buffer.size)
         /\ uploaded[1].size = files[1].buffer.size
         /\ ~mailOptions.html.noImages
    /\ ~Listed(1) =>
         /\ outcome[1] \in {"store_failed", "presign_failed"}
         /\ mailOptions.html.images = <<>>
         /\ mailOptions.html.noImages

C5_Witness ==
  /\ AllPresent /\ Len(files) = 1 /\ pc = "Completed" /\ CodecAlwaysThrew
  /\ outcome[1] = "stored"
  /\ Len(mailOptions.html.images) = 1
  /\ Answered(200, TRUE, SuccessMsg)

\* C5 as stated, taken in the case where the send succeeds: the file whose
\* codec threw is not listed
C5_Original ==
  (AllPresent /\ Len(files) = 1 /\ pc = "Completed" /\ CodecAlwaysThrew
     /\ mailResult = "sent") =>
    /\ Answered(200, TRUE, SuccessMsg)
    /\ mailCalls = 1
    /\ mailOptions.html.images = <<>>
    /\ mailOptions.html.noImages

(***************************************************************************)
(* C8 (as amended): when the bucket is configured, the store of a file     *)
(* succeeds and the presign of that file fails, the object stays in the    *)
(* store but the file is skipped: it is not recorded in uploaded and has   *)
(* no entry in the body.                                                   *)
(***************************************************************************)
HasEntry(list, i) == \E k \in DOMAIN list : list[k].key = Key(i)

C8_PresignFailureSkipsFile ==
  \A i \in DOMAIN files :
    outcome[i] = "presign_failed" =>
      /\ bucket
      /\ Key(i) \in objects
      /\ ~HasEntry(uploaded, i)
      /\ mailCalls = 1 => ~HasEntry(mailOptions.html.images, i)

C8_Witness ==
  /\ pc = "Completed"
  /\ mailResult = "sent"
  /\ Len(files) = 2
  /\ outcome[1] = "presign_failed"
  /\ outcome[2] = "stored"
  /\ Len(mailOptions.html.images) = 1

\* C8 as stated: the file is listed as an entry without a link
C8_Original ==
  \A i \in DOMAIN files :
    (outcome[i] = "presign_failed" /\ mailCalls = 1) =>
      \E k \in DOMAIN mailOptions.html.images :
        /\ mailOptions.html.images[k].key = Key(i)
        /\ ~mailOptions.html.images[k].linked

(***************************************************************************)
(* C9: for every file the normalizer is called at most twice: first at     *)
(* quality 60 and then at quality 45 exactly when the first result is      *)
(* longer than 2 MiB; the second call is given the original uploaded       *)
(* bytes, its result is used whatever its length, and there is no third    *)
(* call.                                                                   *)
(***************************************************************************)
C9_NormalizerAtMostTwice ==
  /\ Len(optCalls) <= 2
  /\ optCalls # <<>> =>
       LET c1 == optCalls[1]
           last == optCalls[Len(optCalls)]
           inFile == pc \in {"Recompress", "Store", "Presign"}
       IN /\ c1.quality = 60
          /\ c1.input = files[c1.file].buffer
          /\ c1.file = IF inFile THEN idx ELSE idx - 1
          /\ inFile => ~Processed(idx)
          /\ pc = "Recompress" => Len(optCalls) = 1
          /\ Len(optCalls) = 2 => c1.result.size > TwoMiB
          /\ (pc # "Recompress" /\ c1.result.size > TwoMiB) => Len(optCalls) = 2
          /\ Len(optCalls) = 2 =>
               /\ optCalls[2].quality = 45
               /\ optCalls[2].file = c1.file
               /\ optCalls[2].input = files[c1.file].buffer
               /\ optCalls[2].input.kind = "orig"
          /\ pc \in {"Store", "Presign"} => buf = last.result
          /\ (~inFile /\ Listed(c1.file)) =>
               uploaded[Len(uploaded)].size = last.result.size

C9_Witness ==
  /\ Len(optCalls) = 2
  /\ optCalls[1].result.size > TwoMiB
  /\ optCalls[2].result.size > TwoMiB
  /\ optCalls[2].result.kind = "jpeg"
  /\ optCalls[2].file = 2
  /\ outcome[2] = "stored"
  /\ uploaded[Len(uploaded)].size = optCalls[2].result.size

(***************************************************************************)
(* C10: a request goes Received -> Validated -> FilesProcessed ->          *)
(* Notified -> Completed.  sendMail is called at most once and only after  *)
(* every file has finished its steps, the files are handled one after      *)
(* another in submission order, no file step follows the send, and there   *)
(* is exactly one response, with status 400, 500 or 200.                   *)
(***************************************************************************)
Rank(p) ==
  CASE p = "Received" -> 0
    [] p \in {"Normalize", "Recompress", "Store", "Presign"} -> 1
    [] p = "Notify" -> 2
    [] p = "Completed" -> 3

C10_Order ==
  /\ mailCalls <= 1
  /\ Len(responses) <= 1
  /\ (pc = "Completed") <=> (Len(responses) = 1)
  /\ \A k \in DOMAIN responses : responses[k].status \in {400, 500, 200}
  /\ mailCalls = 1 =>
       /\ pc = "Completed"
       /\ AllPresent
       /\ \A i \in DOMAIN files : Processed(i)
  /\ (pc = "Completed" /\ AllPresent) => mailCalls = 1
  /\ pc = "Notify" => (mailCalls = 0 /\ \A i \in DOMAIN files : Processed(i))
  /\ Rank(pc) = 1 =>
       /\ mailCalls = 0
       /\ idx \in DOMAIN files
       /\ \A i \in DOMAIN files : Processed(i) <=> i < idx
  /\ \A k \in DOMAIN uploaded :
       k < Len(uploaded) => uploaded[k].key < uploaded[k + 1].key

C10_Step ==
  /\ Rank(pc') >= Rank(pc)
  /\ idx' \in {idx, idx + 1}
  /\ (mailCalls >= 1 \/ pc = "Completed") => UNCHANGED vars

C10_RequestOrder == [](C10_Order) /\ [][C10_Step]_vars

C10_Witness ==
  /\ pc = "Completed"
  /\ Len(files) = 3
  /\ outcome[1] = "stored"
  /\ outcome[2] = "store_failed"
  /\ outcome[3] = "stored"
  /\ mailCalls = 1
  /\ Answered(200, TRUE, SuccessMsg)

(***************************************************************************)
(* C6: in every notification, a field value with one of & < > " ' shows    *)
(* up in the mail subject and in the mail body only as encoded entities,   *)
(* never raw.                                                              *)
(***************************************************************************)
Entities ==
  { <<"&", "a", "m", "p", ";">>, <<"&", "l", "t", ";">>, <<"&", "g", "t", ";">>,
    <<"&", "q", "u", "o", "t", ";">>, <<"&", "#", "3", "9", ";">> }

StartsAt(s, p, t) ==
  /\ p + Len(t) - 1 <= Len(s)
  /\ SubSeq(s, p, p + Len(t) - 1) = t

\* no markup metacharacter is left in s other than as the start of an entity
NoRawMarkup(s) ==
  \A p \in DOMAIN s :
    /\ s[p] \notin {"<", ">", "\"", "'"}
    /\ s[p] = "&" => \E t \in Entities : StartsAt(s, p, t)

RECURSIVE StripBr(_)
\* s without the line-break elements the composer itself puts in
StripBr(s) ==
  IF s = <<>> THEN <<>>
  ELSE IF StartsAt(s, 1, BrTag)
       THEN StripBr(SubSeq(s, Len(BrTag) + 1, Len(s)))
       ELSE <<Head(s)>> \o StripBr(Tail(s))

BodyEscaped ==
  mailCalls = 1 =>
    /\ \A f \in {"business_name", "address", "phone", "discount_rate",
                 "map_link", "href", "promo_tag"} :
         NoRawMarkup(mailOptions.html[f])
    /\ NoRawMarkup(StripBr(mailOptions.html.description))

SubjectEscaped ==
  mailCalls = 1 => NoRawMarkup(mailOptions.subject)

C6_EscapedInSubjectAndBody == SubjectEscaped /\ BodyEscaped

(***************************************************************************)
(* C7: every newline of the description is rendered in the body as a       *)
(* line-break element <br/>, and no raw newline of the description is left *)
(* in the rendered paragraph.                                              *)
(***************************************************************************)
Newlines(s) == Cardinality({p \in DOMAIN s : s[p] = "\n"})

Breaks(s) == Cardinality({p \in DOMAIN s : StartsAt(s, p, BrTag)})

C7_NewlinesBecomeBreaks ==
  mailCalls = 1 =>
    /\ Newlines(mailOptions.html.description) = 0
    /\ Breaks(mailOptions.html.description) >= Newlines(body["description"].val)

====
